---- MODULE Spec2Model ----
(***************************************************************************)
(* Model of tools/splines.py: the Catmull-Rom segment evaluator            *)
(* catmull_rom_point and the sampler catmull_rom.                          *)
(*                                                                         *)
(* Numbers are exact extended rationals <<n, d>>: d > 0 is the rational    *)
(* n/d in lowest terms, <<1,0>> is +inf, <<-1,0>> is -inf and <<0,0>> is   *)
(* nan, the three non-finite values numpy arithmetic produces on a         *)
(* division by a zero knot interval.  Floating-point rounding is not       *)
(* modelled; the inputs are drawn so that every root the code takes is     *)
(* rational.                                                               *)
(***************************************************************************)
EXTENDS Integers, Sequences, FiniteSets, TLC

VARIABLES
    op,       \* the function called: "none", "catmull_rom_point" or "catmull_rom"
    args,     \* the arguments of the call
    knots,    \* <<t0, t1, t2, t3>> of the last catmull_rom_point evaluation
    outcome,  \* "none", "return", or the name of the exception raised
    ret,      \* the value returned (<<>> when nothing is returned)
    evals     \* catmull_rom_point invocations started by catmull_rom

vars == <<op, args, knots, outcome, ret, evals>>

(***************************************************************************)
(* Bounds of the model and constants of the program.                       *)
(***************************************************************************)
\* assert len(p_x) == len(p_y) == 4; p_x = np.arange(0,4)
NumControlPoints == 4
\* y-coordinates of control points range over 0..MaxY
MaxY == 1
\* catmull_rom_point is called directly with t = k/2, k in 0..MaxT2
MaxT2 == 6
\* catmull_rom is called with res in -1..MaxRes
MaxRes == 2

(***************************************************************************)
(* Extended rational arithmetic.                                           *)
(***************************************************************************)
Abs(n) == IF n < 0 THEN -n ELSE n

Sign(n) == IF n < 0 THEN -1 ELSE IF n > 0 THEN 1 ELSE 0

RECURSIVE GCD(_, _)
GCD(a, b) == IF b = 0 THEN a ELSE GCD(b, a % b)

Norm(n, d) ==
    IF d = 0 THEN <<Sign(n), 0>>
    ELSE LET g == GCD(Abs(n), Abs(d))
         IN  <<(Sign(d) * n) \div g, Abs(d) \div g>>

R(n) == <<n, 1>>

NaN == <<0, 0>>

Neg(a) == <<-a[1], a[2]>>

Add(a, b) ==
    IF a[2] = 0 /\ b[2] = 0
    THEN IF a[1] = b[1] THEN a ELSE NaN
    ELSE Norm(a[1] * b[2] + b[1] * a[2], a[2] * b[2])

Sub(a, b) == Add(a, Neg(b))

Mul(a, b) == Norm(a[1] * b[1], a[2] * b[2])

\* numpy true division: x/0 is +-inf, 0/0 is nan (a RuntimeWarning, no raise)
Div(a, b) ==
    IF b[1] < 0 THEN Mul(a, <<-b[2], -b[1]>>) ELSE Mul(a, <<b[2], b[1]>>)

Less(a, b) == a[1] * b[2] < b[1] * a[2]

\* w * p and p + q on length-2 arrays (numpy broadcasting)
VScale(w, v) == <<Mul(w, v[1]), Mul(w, v[2])>>

VAdd(u, v) == <<Add(u[1], v[1]), Add(u[2], v[2])>>

PointR(q) == <<R(q[1]), R(q[2])>>

(***************************************************************************)
(* Inputs.                                                                 *)
(***************************************************************************)
a_uniform == <<0, 1>>

a_centripetal == <<1, 2>>

\* alpha = 1.0, the third exponent callers pass
a_chordal == <<1, 1>>

Alphas == {a_uniform, a_centripetal, a_chordal}

Points == (0 .. NumControlPoints - 1) \X (0 .. MaxY)

IsSquare(n) == \E r \in 0 .. n : r * r = n

ISqrt(n) == CHOOSE r \in 0 .. n : r * r = n

Len2(pi, pj) == (pj[1] - pi[1]) * (pj[1] - pi[1]) + (pj[2] - pi[2]) * (pj[2] - pi[2])

\* the chord lengths, and for alpha = 1/2 their square roots, are rational
Exact(q, a) ==
    \A i \in 1 .. 3 :
        /\ IsSquare(Len2(q[i], q[i + 1]))
        /\ a = a_centripetal => IsSquare(ISqrt(Len2(q[i], q[i + 1])))

Quads == [1 .. NumControlPoints -> Points]

Ts == {Norm(k, 2) : k \in 0 .. MaxT2}

(***************************************************************************)
(* catmull_rom_point                                                       *)
(***************************************************************************)
\* Pow with 0.0 ** 0.0 taken to be 0.0
PowZeroBase(l, alpha) ==
    IF l = 0 THEN 0
    ELSE IF alpha = a_uniform THEN 1
    ELSE IF alpha = a_chordal THEN l
    ELSE ISqrt(l)

\* l ** alpha for l >= 0 (0.0 ** 0.0 is 1.0)
Pow(l, alpha) ==
    IF alpha = a_uniform THEN 1
    ELSE IF alpha = a_chordal THEN l
    ELSE ISqrt(l)

\* tj returning l ** alpha without adding ti
tjNoBase(ti, pi, pj, alpha) ==
    LET l == ISqrt(Len2(pi, pj))
    IN  R(Pow(l, alpha))

tj(ti, pi, pj, alpha) ==
    LET l == ISqrt(Len2(pi, pj))
    IN  Add(ti, R(Pow(l, alpha)))

Knots(p0, p1, p2, p3, alpha) ==
    LET t0 == R(0)
        t1 == tj(t0, p0, p1, alpha)
        t2 == tj(t1, p1, p2, alpha)
        t3 == tj(t2, p2, p3, alpha)
    IN  <<t0, t1, t2, t3>>

\* (thi - t) / (thi - tlo) * u + (t - tlo) / (thi - tlo) * v
Blend(tlo, thi, t, u, v) ==
    VAdd(VScale(Div(Sub(thi, t), Sub(thi, tlo)), u),
         VScale(Div(Sub(t, tlo), Sub(thi, tlo)), v))

A1(k, t, p0, p1) == Blend(k[1], k[2], t, p0, p1)

\* line 18 with t0 written for t1
A2WrongKnot(k, t, p1, p2) == Blend(k[1], k[3], t, p1, p2)

A2(k, t, p1, p2) == Blend(k[2], k[3], t, p1, p2)

A3(k, t, p2, p3) == Blend(k[3], k[4], t, p2, p3)

B1(k, t, a1, a2) == Blend(k[1], k[3], t, a1, a2)

B2(k, t, a2, a3) == Blend(k[2], k[4], t, a2, a3)

Blends(k, t, p0, p1, p2, p3) ==
    LET a1 == A1(k, t, p0, p1)
        a2 == A2(k, t, p1, p2)
        a3 == A3(k, t, p2, p3)
        b1 == B1(k, t, a1, a2)
        b2 == B2(k, t, a2, a3)
    IN  Blend(k[2], k[3], t, b1, b2)

\* The call on points that unpack into two coordinates.  numpy: some argument
\* carries numpy scalars (ndarray points, or t from np.linspace), so a division
\* by zero yields inf/nan and float * point broadcasts.  Otherwise every
\* argument is a builtin float or tuple: the first division of line 17 raises
\* ZeroDivisionError when t1 = t0, and else float * tuple raises TypeError.
catmull_rom_point(p0, p1, p2, p3, t, alpha, numpy) ==
    LET k == Knots(p0, p1, p2, p3, alpha)
    IN  IF numpy
        THEN [outcome |-> "return", knots |-> k,
              value |-> Blends(k, t, PointR(p0), PointR(p1), PointR(p2), PointR(p3))]
        ELSE IF k[2] = k[1]
        THEN [outcome |-> "ZeroDivisionError", knots |-> k, value |-> <<>>]
        ELSE [outcome |-> "TypeError", knots |-> k, value |-> <<>>]

(***************************************************************************)
(* The state machine of one call of catmull_rom_point: the initial state   *)
(* holds the arguments, the one step runs the function.                    *)
(***************************************************************************)
InitPoint ==
    /\ op = "catmull_rom_point"
    /\ \E q \in Quads, alpha \in Alphas :
        /\ Exact(q, alpha)
        /\ \E t \in Ts, numpy \in BOOLEAN :
            args = [p0 |-> q[1], p1 |-> q[2], p2 |-> q[3], p3 |-> q[4],
                    t |-> t, alpha |-> alpha, numpy |-> numpy]
    /\ knots = <<>>
    /\ outcome = "none"
    /\ ret = <<>>
    /\ evals = 0

CallPoint ==
    /\ op = "catmull_rom_point"
    /\ outcome = "none"
    /\ LET r == catmull_rom_point(args.p0, args.p1, args.p2, args.p3,
                                  args.t, args.alpha, args.numpy)
       IN  /\ knots' = r.knots
           /\ outcome' = r.outcome
           /\ ret' = r.value
    /\ UNCHANGED <<op, args, evals>>

SpecPoint == InitPoint /\ [][CallPoint]_vars

(***************************************************************************)
(* catmull_rom                                                             *)
(*                                                                         *)
(* An element of p_x or p_y is a tuple of integers: <<v>> stands for the   *)
(* scalar v (what indexing an array of coordinates yields, as in the       *)
(* caller at lines 54-59) and <<a, b>> for a point that unpacks into two   *)
(* coordinates.                                                            *)
(***************************************************************************)
\* xi, yi = pi
Unpacks(e) == Len(e) = 2

\* the assertion checking p_x alone
AssertLenOnlyX(p_x, p_y) == Len(p_x) = NumControlPoints

\* assert len(p_x) == len(p_y) == 4
AssertLen(p_x, p_y) == Len(p_x) = Len(p_y) /\ Len(p_y) = NumControlPoints

\* np.linspace(0., 1., res, endpoint=False) for res >= 0
linspace(res) == [i \in 1 .. res |-> Norm(i - 1, res)]

\* line 42: the list x
XSamples(p_x, res, alpha) ==
    [i \in 1 .. res |->
        catmull_rom_point(p_x[1], p_x[2], p_x[3], p_x[4], linspace(res)[i], alpha, TRUE).value]

\* line 43: the list y, which reads p_x as line 42 does (p_y is not read)
YSamples(p_x, res, alpha) ==
    [i \in 1 .. res |->
        catmull_rom_point(p_x[1], p_x[2], p_x[3], p_x[4], linspace(res)[i], alpha, TRUE).value]

catmull_rom(p_x, p_y, res, alpha) ==
    IF ~AssertLen(p_x, p_y)
    THEN [outcome |-> "AssertionError", value |-> <<>>, evals |-> 0, knots |-> <<>>]
    ELSE IF res < 0
    THEN [outcome |-> "ValueError", value |-> <<>>, evals |-> 0, knots |-> <<>>]
    ELSE IF res = 0
    THEN [outcome |-> "return", value |-> <<<<>>, <<>>>>, evals |-> 0, knots |-> <<>>]
    ELSE IF \E i \in 1 .. NumControlPoints : ~Unpacks(p_x[i])
    THEN [outcome |-> "TypeError", value |-> <<>>, evals |-> 1, knots |-> <<>>]
    ELSE [outcome |-> "return",
          value |-> <<XSamples(p_x, res, alpha), YSamples(p_x, res, alpha)>>,
          evals |-> res + res,
          knots |-> Knots(p_x[1], p_x[2], p_x[3], p_x[4], alpha)]

\* seq cut or padded (with its last element) to length n
Resize(seq, n) == [i \in 1 .. n |-> IF i <= Len(seq) THEN seq[i] ELSE seq[Len(seq)]]

Lens == (NumControlPoints - 1) .. (NumControlPoints + 1)

\* "coords": p_x holds the x-coordinates and p_y the y-coordinates, as the
\* caller passes them; "points": p_x holds the four points themselves.
Layouts == {"coords", "points"}

PX(q, layout) ==
    [i \in 1 .. NumControlPoints |-> IF layout = "coords" THEN <<q[i][1]>> ELSE q[i]]

PY(q) == [i \in 1 .. NumControlPoints |-> <<q[i][2]>>]

InitCurve ==
    /\ op = "catmull_rom"
    /\ \E q \in Quads, alpha \in Alphas :
        /\ Exact(q, alpha)
        /\ \E layout \in Layouts, lx \in Lens, ly \in Lens, res \in -1 .. MaxRes :
            args = [p_x |-> Resize(PX(q, layout), lx), p_y |-> Resize(PY(q), ly),
                    res |-> res, alpha |-> alpha]
    /\ knots = <<>>
    /\ outcome = "none"
    /\ ret = <<>>
    /\ evals = 0

CallCurve ==
    /\ op = "catmull_rom"
    /\ outcome = "none"
    /\ LET r == catmull_rom(args.p_x, args.p_y, args.res, args.alpha)
       IN  /\ knots' = r.knots
           /\ outcome' = r.outcome
           /\ ret' = r.value
           /\ evals' = r.evals
    /\ UNCHANGED <<op, args>>

SpecCurve == InitCurve /\ [][CallCurve]_vars

(***************************************************************************)
(* Properties.                                                             *)
(***************************************************************************)
PointDone == op = "catmull_rom_point" /\ outcome # "none"

CurveDone == op = "catmull_rom" /\ outcome # "none"

ArgPoints == <<args.p0, args.p1, args.p2, args.p3>>

DistinctConsecutive(q) == \A i \in 1 .. 3 : q[i] # q[i + 1]

Increasing(k) == Less(k[1], k[2]) /\ Less(k[2], k[3]) /\ Less(k[3], k[4])

\* the control points the caller of catmull_rom means by its coordinate arrays
CoordsLayout == \A i \in 1 .. Len(args.p_x) : ~Unpacks(args.p_x[i])

CoordQuad == [i \in 1 .. NumControlPoints |-> <<args.p_x[i][1], args.p_y[i][1]>>]

\* the four control points of the call, in either layout
CurveQuad == IF CoordsLayout THEN CoordQuad ELSE args.p_x

SampleAt(q, i) ==
    catmull_rom_point(q[1], q[2], q[3], q[4], Norm(i - 1, args.res), args.alpha, TRUE).value

\* C1: with consecutive points distinct, catmull_rom_point at t = 0 returns p1
\* and at t = 1 returns p2 (the claim's remapping of t into [t1, t2]).
C1_EndpointsAtNormalizedT ==
    (PointDone /\ args.numpy /\ DistinctConsecutive(ArgPoints)) =>
        /\ args.t = R(0) => (outcome = "return" /\ ret = PointR(args.p1))
        /\ args.t = R(1) => (outcome = "return" /\ ret = PointR(args.p2))

\* C2: for a valid quad and res = N >= 1, catmull_rom returns normally, with
\* exactly N samples in each of its two lists.
C2_ReturnsNSamples ==
    (CurveDone /\ AssertLen(args.p_x, args.p_y) /\ args.res >= 1
        /\ DistinctConsecutive(CurveQuad)) =>
        /\ outcome = "return"
        /\ Len(ret[1]) = args.res
        /\ Len(ret[2]) = args.res

\* C3: the x list is the x-coordinate and the y list the y-coordinate of the
\* segment through the points (p_x[i], p_y[i]), both on the knots of the 2-D
\* distances.
C3_Componentwise ==
    (CurveDone /\ AssertLen(args.p_x, args.p_y) /\ CoordsLayout /\ args.res >= 1
        /\ DistinctConsecutive(CoordQuad)) =>
        /\ outcome = "return"
        /\ ret[1] = [i \in 1 .. args.res |-> SampleAt(CoordQuad, i)[1]]
        /\ ret[2] = [i \in 1 .. args.res |-> SampleAt(CoordQuad, i)[2]]

\* C4: catmull_rom_point with two coinciding consecutive control points ends
\* in the degenerate-segment error (the only error a zero knot interval
\* raises in the code is ZeroDivisionError) and never returns a point.
C4_DegenerateRaises ==
    (PointDone /\ ~DistinctConsecutive(ArgPoints)) => outcome = "ZeroDivisionError"

\* C5: catmull_rom with res <= 0 ends in the invalid-resolution error (the
\* ValueError of np.linspace) and returns nothing, not even empty lists.
C5_InvalidResolution ==
    (CurveDone /\ AssertLen(args.p_x, args.p_y) /\ args.res <= 0) =>
        (outcome = "ValueError" /\ ret = <<>>)

\* C6: catmull_rom with p_x or p_y not of length 4 ends in the failed
\* assertion (the code's InvalidControlQuad) before any point is evaluated
\* and returns nothing.
C6_InvalidControlQuad ==
    (CurveDone /\ (Len(args.p_x) # NumControlPoints \/ Len(args.p_y) # NumControlPoints)) =>
        (outcome = "AssertionError" /\ evals = 0 /\ ret = <<>>)

C6_Witness ==
    /\ CurveDone
    /\ Len(args.p_x) = NumControlPoints
    /\ Len(args.p_y) = NumControlPoints - 1
    /\ args.res >= 1
    /\ outcome = "AssertionError"
    /\ evals = 0

\* C7: the knots start at t0 = 0, never decrease, and are strictly
\* increasing when consecutive control points are distinct.
C7_KnotsIncreasing ==
    PointDone =>
        /\ knots[1] = R(0)
        /\ \A i \in 1 .. 3 :
            /\ ~Less(knots[i + 1], knots[i])
            /\ ArgPoints[i] # ArgPoints[i + 1] => Less(knots[i], knots[i + 1])
        /\ DistinctConsecutive(ArgPoints) => Increasing(knots)

C7_Witness ==
    /\ PointDone
    /\ DistinctConsecutive(ArgPoints)
    /\ args.alpha = a_chordal
    /\ knots = <<R(0), R(1), R(3), R(4)>>

\* C8: for p0..p3 = (0,0),(1,0),(2,0),(3,0), alpha 0 or 0.5 and res >= 1,
\* catmull_rom returns samples with y = 0 and strictly increasing x.
C8_CollinearStraight ==
    (CurveDone /\ args.p_x = << <<0>>, <<1>>, <<2>>, <<3>> >>
        /\ args.p_y = << <<0>>, <<0>>, <<0>>, <<0>> >>
        /\ args.alpha \in {a_uniform, a_centripetal} /\ args.res >= 1) =>
        /\ outcome = "return"
        /\ \A i \in 1 .. args.res : ret[2][i] = R(0)
        /\ \A i \in 1 .. args.res - 1 : Less(ret[1][i], ret[1][i + 1])

\* C9 as claimed: coinciding consecutive points give tj = ti for every alpha,
\* alpha = 0 included.
C9_ZeroDistanceKeepsKnot ==
    PointDone =>
        \A i \in 1 .. 3 : ArgPoints[i] = ArgPoints[i + 1] => knots[i + 1] = knots[i]

\* C9 as amended: coinciding consecutive points give tj = ti for alpha > 0
\* and tj = ti + 1 for alpha = 0, where the step computes 0.0 ** 0.0 = 1.0.
C9_ZeroDistanceKnot ==
    PointDone =>
        \A i \in 1 .. 3 : ArgPoints[i] = ArgPoints[i + 1] =>
            knots[i + 1] = IF args.alpha = a_uniform
                           THEN Add(knots[i], R(1))
                           ELSE knots[i]

C9_Witness ==
    /\ PointDone
    /\ args.p1 = args.p2
    /\ args.p0 # args.p1
    /\ args.alpha = a_uniform
    /\ knots[3] = Add(knots[2], R(1))

\* C10: on strictly increasing knots the blends return p1 when the parameter
\* entering them is the knot t1 and p2 when it is the knot t2, whatever p0
\* and p3 are.
C10_InterpolatesAtKnots ==
    (PointDone /\ args.numpy /\ Increasing(knots)) =>
        /\ args.t = knots[2] => (outcome = "return" /\ ret = PointR(args.p1))
        /\ args.t = knots[3] => (outcome = "return" /\ ret = PointR(args.p2))

C10_Witness ==
    /\ PointDone
    /\ args.numpy
    /\ Increasing(knots)
    /\ args.alpha = a_chordal
    /\ knots[2] = R(2)
    /\ args.t = knots[3]
    /\ args.t = R(3)
    /\ args.p0[2] # args.p3[2]
    /\ ret = PointR(args.p2)

====
